---- MODULE Spec2Model ----
(***************************************************************************)
(* Model of the data layer of the CRM: the Firestore-backed entity         *)
(* services (src/src/services/firebaseService.ts), the vendor profile      *)
(* service, the migration service, and the parts of the useFirebaseData    *)
(* hook (src/unnamed/part_002) that forward to them.                       *)
(*                                                                         *)
(* firebaseService.ts holds every service twice (a logging copy, lines     *)
(* 64-577, and a plain copy, lines 637-915, with stray contact methods in  *)
(* between).  The two copies agree on every store effect modelled here;    *)
(* the definitions below follow the first copy and cite the second where   *)
(* the first is truncated (remindersService.onSnapshot).                   *)
(***************************************************************************)
EXTENDS Integers, Sequences, FiniteSets, TLC

(***************************************************************************)
(* Bounds of the model.                                                    *)
(***************************************************************************)
MaxDocs == 2
MaxClock == 3
MaxSetCalls == 2
MaxLocal == 1
MaxMigrations == 2
MaxDepth == 1
MaxRuns == 3
MaxLocalLen == 3

(***************************************************************************)
(* JavaScript values.  Every value is a record [t, v]: t is the runtime    *)
(* type the code tests with instanceof / typeof / Array.isArray, v the     *)
(* payload.  An object's payload is a function from field names to values; *)
(* `{...a, ...b}` is Spread(a, b).                                         *)
(***************************************************************************)
Str(s) == [t |-> "string", v |-> s]
Num(n) == [t |-> "number", v |-> n]
DateV(ms) == [t |-> "Date", v |-> ms]
TimestampV(ms) == [t |-> "Timestamp", v |-> ms]
Obj(f) == [t |-> "object", v |-> f]
Arr(s) == [t |-> "array", v |-> s]

\* The sentinel serverTimestamp() returns; the store replaces it on write.
serverTimestamp == [t |-> "serverTimestamp", v |-> 0]

EmptyFields == [f \in {} |-> Num(0)]

Spread(a, b) ==
  [f \in (DOMAIN a) \cup (DOMAIN b) |-> IF f \in DOMAIN b THEN b[f] ELSE a[f]]

\* `const { id, ...rest } = x`
Rest(a, dropped) == [f \in (DOMAIN a) \ dropped |-> a[f]]

\* The index keys `{...array}` gives an array's elements.
IndexKey(i) == <<"0", "1", "2", "3">>[i]

RECURSIVE convertTimestamps(_)
convertTimestamps(data) ==
  [key \in DOMAIN data |->
     LET x == data[key] IN
     CASE x.t = "Timestamp" -> DateV(x.v)
       [] x.t = "object"    -> Obj(convertTimestamps(x.v))
       [] x.t = "array"     ->
            Obj(convertTimestamps(
                  [k \in {IndexKey(i) : i \in 1..Len(x.v)} |->
                     x.v[CHOOSE i \in 1..Len(x.v) : IndexKey(i) = k]]))
       [] x.t = "Date"      -> Obj(EmptyFields)
       [] OTHER             -> x]

RECURSIVE convertDatesToTimestamps(_)
convertDatesToTimestamps(data) ==
  [key \in DOMAIN data |->
     LET x == data[key] IN
     CASE x.t = "Date"      -> TimestampV(x.v)
       [] x.t = "object"    -> Obj(convertDatesToTimestamps(x.v))
       [] x.t = "Timestamp" -> Obj([seconds |-> Num(x.v), nanoseconds |-> Num(0)])
       [] OTHER             -> x]

(***************************************************************************)
(* Collections, owners, entity shapes.                                     *)
(***************************************************************************)
COLLECTIONS ==
  [CONTACTS |-> "contacts", PRODUCTS |-> "products", ORDERS |-> "orders",
   NOTES |-> "notes", REMINDERS |-> "reminders", VENDOR_INFO |-> "vendorInfo"]

Kinds == {COLLECTIONS.CONTACTS, COLLECTIONS.PRODUCTS, COLLECTIONS.ORDERS,
          COLLECTIONS.NOTES, COLLECTIONS.REMINDERS}

Owners == {"u1", "u2"}

\* A `userId?: string` argument that is undefined (or ""): `if (userId)` is false.
NoOwner == ""

OwnerArgs == Owners \cup {NoOwner}

\* The field each kind is listed by, and one further entity field per kind.
SortField(k) ==
  CASE k = "contacts"  -> "name"
    [] k = "products"  -> "name"
    [] k = "orders"    -> "orderDate"
    [] k = "notes"     -> "date"
    [] k = "reminders" -> "date"

OtherField(k) ==
  CASE k = "contacts"  -> "totalSpent"
    [] k = "products"  -> "stock"
    [] k = "orders"    -> "status"
    [] k = "notes"     -> "content"
    [] k = "reminders" -> "completed"

\* Names in the order String.prototype.localeCompare gives them.
NameOrder == <<"Aina", "Rasoa">>

Names == {NameOrder[i] : i \in 1..Len(NameOrder)}
Dates == {10, 20}
Others == {0, 1}

SortValues(k) ==
  IF k \in {"contacts", "products"} THEN {Str(n) : n \in Names}
                                    ELSE {DateV(d) : d \in Dates}

\* The entities a caller passes to add (Omit<Entity, 'id'>).
Entities(k) ==
  {[f \in {SortField(k), OtherField(k)} |->
      IF f = SortField(k) THEN s ELSE Num(o)] :
     s \in SortValues(k), o \in Others}

\* The patches a caller passes to update: {field: v}.
Patches(k) ==
  {[f \in {SortField(k)} |-> s] : s \in SortValues(k)}
    \cup {[f \in {OtherField(k)} |-> Num(o)] : o \in Others}

(***************************************************************************)
(* The document store (Firestore), as the services use it.  A document is  *)
(* [col, key, data]; data is the field map doc.data() returns.             *)
(***************************************************************************)
VARIABLES
  store,      \* the documents of every collection
  nextId,     \* how many document ids the store has generated
  clock,      \* the server's clock; every accepted write advances it
  kind,       \* the entity service under test (fixed by Init)
  last,       \* the last service call that settled, and what it returned
  listener,   \* the onSnapshot listener: [attached, owner, pending]
  snapshot,   \* the hook's state for `kind` (setContacts, setOrders, ...)
  vcalls,     \* vendorInfoService.set calls in flight
  vlog,       \* the payloads of the set calls that completed, per owner
  localData,  \* the client's local dataset (MainAppContent's local state)
  mig,        \* migrateAllData: the call in flight and the calls that settled
  hook,       \* the state of useFirebaseData and its initializeData runs
  app         \* the state of MainAppContent

vars ==
  <<store, nextId, clock, kind, last, listener, snapshot, vcalls, vlog, localData, mig,
    hook, app>>

\* Ids generated by the store (doc(collection(...)) / addDoc): never reused.
AutoId(n) == "d" \o ToString(n)

\* Ids fabricated by the client for local records.
LocalId(n) == "l" \o ToString(n)

\* The server replaces every serverTimestamp() sentinel by its time.
Resolve(fields, now) ==
  [f \in DOMAIN fields |->
     IF fields[f].t = "serverTimestamp" THEN TimestampV(now) ELSE fields[f]]

Docs(s, col) == {d \in s : d.col = col}

Exists(s, col, key) == \E d \in s : d.col = col /\ d.key = key

DocAt(s, col, key) == CHOOSE d \in s : d.col = col /\ d.key = key

\* addDoc(collection(db, col), fields) and batch.set(doc(collection(db, col)), fields)
addDoc(s, col, key, fields, now) ==
  s \cup {[col |-> col, key |-> key, data |-> Resolve(fields, now)]}

\* updateDoc(doc(db, col, key), fields): merges fields into an existing document
updateDoc(s, col, key, fields, now) ==
  {IF d.col = col /\ d.key = key
     THEN [d EXCEPT !.data = Spread(d.data, Resolve(fields, now))]
     ELSE d : d \in s}

\* deleteDoc(doc(db, col, key))
deleteDoc(s, col, key) == {d \in s : ~(d.col = col /\ d.key = key)}

\* query(collection(db, col), ...constraints): constraints holds
\* where('userId', '==', userId) only when userId is truthy.
Query(s, col, userId) ==
  {d \in Docs(s, col) :
     userId # NoOwner =>
       ("userId" \in DOMAIN d.data /\ d.data["userId"] = Str(userId))}

\* { id: doc.id, ...convertTimestamps(doc.data()) }
Entity(d) == Spread([id |-> Str(d.key)], convertTimestamps(d.data))

(***************************************************************************)
(* Listing: the order of the result.                                       *)
(***************************************************************************)
\* querySnapshot.docs: the matching documents, in an order the store picks.
Orderings(S) ==
  {q \in [1..Cardinality(S) -> S] : \A i, j \in 1..Cardinality(S) : q[i] = q[j] => i = j}

SeqMapEntity(docs) == [i \in 1..Len(docs) |-> Entity(docs[i])]

\* new Date(x).getTime()
getTime(x) == x.v

\* a.localeCompare(b)
localeCompare(a, b) ==
  LET rank(n) == CHOOSE i \in 1..Len(NameOrder) : NameOrder[i] = n IN
  IF a = b THEN 0 ELSE IF rank(a) < rank(b) THEN 0 - 1 ELSE 1

\* The comparator each service hands to Array.prototype.sort.
compare(order, k, a, b) ==
  CASE order = "desc" -> getTime(b[SortField(k)]) - getTime(a[SortField(k)])
    [] order = "asc"  -> getTime(a[SortField(k)]) - getTime(b[SortField(k)])
    [] order = "name" -> localeCompare(a["name"].v, b["name"].v)

\* Array.prototype.sort is stable: x goes before the first element that must follow it.
RECURSIVE insert(_, _, _, _)
insert(order, k, sorted, x) ==
  IF sorted = <<>> THEN <<x>>
  ELSE IF compare(order, k, Head(sorted), x) > 0 THEN <<x>> \o sorted
  ELSE <<Head(sorted)>> \o insert(order, k, Tail(sorted), x)

RECURSIVE sort(_, _, _)
sort(order, k, list) ==
  IF order = "none" \/ list = <<>> THEN list
  ELSE insert(order, k, sort(order, k, SubSeq(list, 1, Len(list) - 1)), list[Len(list)])

\* getAll as it would be without the client-side sort.
GetAllOrderStoreOrder(k) == "none"

\* What each service's getAll does to the fetched list before returning it.
GetAllOrder(k) ==
  CASE k = "contacts"  -> "none"
    [] k = "products"  -> "none"
    [] k = "orders"    -> "desc"
    [] k = "notes"     -> "desc"
    [] k = "reminders" -> "asc"

\* What each service's onSnapshot does to the list before calling back.
SnapshotOrder(k) ==
  CASE k = "contacts"  -> "none"
    [] k = "products"  -> "name"
    [] k = "orders"    -> "desc"
    [] k = "notes"     -> "desc"
    [] k = "reminders" -> "asc"

(***************************************************************************)
(* What the services write.                                                *)
(***************************************************************************)
\* add: products are written as given, the other kinds through
\* convertDatesToTimestamps; notes and reminders get no updatedAt.
AddFields(k, e, userId) ==
  LET data == IF k = "products" THEN e ELSE convertDatesToTimestamps(e) IN
  IF k \in {"notes", "reminders"}
    THEN Spread(data, [userId |-> Str(userId), createdAt |-> serverTimestamp])
    ELSE Spread(data, [userId |-> Str(userId), createdAt |-> serverTimestamp,
                       updatedAt |-> serverTimestamp])

\* update: contacts, products and orders stamp updatedAt; notes and reminders
\* write the patch alone.
UpdateFields(k, patch) ==
  LET data == IF k = "products" THEN patch ELSE convertDatesToTimestamps(patch) IN
  IF k \in {"notes", "reminders"}
    THEN data
    ELSE Spread(data, [updatedAt |-> serverTimestamp])

\* A listener is told when the result of its query changes.
Notify(l, s, t) ==
  IF l.attached /\ Query(s, kind, l.owner) # Query(t, kind, l.owner)
    THEN [l EXCEPT !.pending = TRUE]
    ELSE l

\* What a caller sees of a call that settled.
Call(op, caller, key, arg, out, threw) ==
  [op |-> op, caller |-> caller, key |-> key, arg |-> arg, out |-> out, threw |-> threw]

\* A callback that keeps the state and appends only what it has not seen (a delta).
setSnapshotDelta(prev, list) ==
  prev \o SelectSeq(list, LAMBDA e : \A i \in 1..Len(prev) : prev[i] # e)

\* The callback the hook hands to onSnapshot is its state setter: the
\* delivered list replaces the state.
setSnapshot(prev, list) == list

\* The list getAll returns when the store hands back `docs`.
getAllResult(k, docs) == sort(GetAllOrder(k), k, SeqMapEntity(docs))

\* The list onSnapshot's listener calls back with when the snapshot holds `docs`.
snapshotResult(k, docs) == sort(SnapshotOrder(k), k, SeqMapEntity(docs))

(***************************************************************************)
(* Local data and the migration batch.                                     *)
(***************************************************************************)
VendorPayloads ==
  {[name |-> Str("Kefir A"), phone |-> Str("032")], [name |-> Str("Kefir B")]}

\* The n-th local record of a kind: an entity with a client-made id.  A
\* local contact carries its notes, each pointing back at the contact
\* (handleSaveNote: notes: [...contact.notes, newNote]).
LocalRecord(k, n, withNotes) ==
  LET e == [f \in {SortField(k), OtherField(k)} |->
              IF f = OtherField(k) THEN Num(0)
              ELSE IF k \in {"contacts", "products"} THEN Str(NameOrder[1])
              ELSE DateV(10 * n)]
      note == Obj([id |-> Str("n" \o ToString(n)), contactId |-> Str(LocalId(n))])
  IN IF k = "contacts"
       THEN Spread([id |-> Str(LocalId(n)),
                    notes |-> Arr(IF withNotes THEN <<note>> ELSE <<>>)], e)
       ELSE Spread([id |-> Str(LocalId(n))], e)

\* localData: one list per kind; vendorInfo is <<>> for null, <<v>> for an object.
LocalData(count, withNotes, vendor) ==
  [k \in Kinds \cup {"vendorInfo"} |->
     IF k = "vendorInfo" THEN vendor
     ELSE [n \in 1..count[k] |-> LocalRecord(k, n, withNotes)]]

LocalDatasets ==
  {LocalData(count, withNotes, vendor) :
     count \in [Kinds -> 0..MaxLocal],
     withNotes \in BOOLEAN,
     vendor \in {<<>>} \cup {<<v>> : v \in VendorPayloads}}

NoLocalData == LocalData([k \in Kinds |-> 0], FALSE, <<>>)

NoMigration == [phase |-> "idle", owner |-> NoOwner, batch |-> <<>>, done |-> <<>>]

\* The fields batch.set writes for a local record: `const { id, ...data } = record`,
\* dates encoded (not for products), userId and the server stamps added
\* (no updatedAt for notes and reminders).
MigrateFields(k, record, userId) ==
  LET rest == Rest(record, {"id"})
      data == IF k = "products" THEN rest ELSE convertDatesToTimestamps(rest)
  IN IF k \in {"notes", "reminders"}
       THEN Spread(data, [userId |-> Str(userId), createdAt |-> serverTimestamp])
       ELSE Spread(data, [userId |-> Str(userId), createdAt |-> serverTimestamp,
                          updatedAt |-> serverTimestamp])

\* The vendor profile is spread as it is.
MigrateVendorFields(vendorInfo, userId) ==
  Spread(vendorInfo, [userId |-> Str(userId), createdAt |-> serverTimestamp,
                      updatedAt |-> serverTimestamp])

\* The order the loops of migrateAllData visit the collections in.
MigrationOrder == <<"contacts", "products", "orders", "notes", "reminders">>

RECURSIVE SourceRecords(_, _)
SourceRecords(data, i) ==
  IF i > Len(MigrationOrder) THEN <<>>
  ELSE [n \in 1..Len(data[MigrationOrder[i]]) |->
          [col |-> MigrationOrder[i], record |-> data[MigrationOrder[i]][n]]]
       \o SourceRecords(data, i + 1)

\* A batch that writes every record under a key made from its position in
\* the dataset, the same on every run.
BuildBatchKeyed(data, userId, firstId) ==
  LET src == SourceRecords(data, 1)
      entityWrites ==
        [i \in 1..Len(src) |->
           [col |-> src[i].col, key |-> AutoId(i),
            fields |-> MigrateFields(src[i].col, src[i].record, userId)]]
  IN IF data["vendorInfo"] # <<>>
       THEN Append(entityWrites,
                   [col |-> "vendorInfo", key |-> AutoId(Len(src) + 1),
                    fields |-> MigrateVendorFields(data["vendorInfo"][1], userId)])
       ELSE entityWrites

\* The writes the batch holds when commit is called: one batch.set per
\* record on a fresh doc(collection(db, col)), then the vendor profile.
BuildBatch(data, userId, firstId) ==
  LET src == SourceRecords(data, 1)
      entityWrites ==
        [i \in 1..Len(src) |->
           [col |-> src[i].col, key |-> AutoId(firstId + i),
            fields |-> MigrateFields(src[i].col, src[i].record, userId)]]
  IN IF data["vendorInfo"] # <<>>
       THEN Append(entityWrites,
                   [col |-> "vendorInfo", key |-> AutoId(firstId + Len(src) + 1),
                    fields |-> MigrateVendorFields(data["vendorInfo"][1], userId)])
       ELSE entityWrites

\* A loop of separate writes in place of the batch: what was written before
\* the rejected write stays.
commitEach(s, batch, accepted, now) ==
  s \cup {[col |-> batch[i].col, key |-> batch[i].key,
           data |-> Resolve(batch[i].fields, now)] :
            i \in 1..(IF accepted THEN Len(batch) ELSE Len(batch) - 1)}

\* batch.commit(): every write of the batch, or none.
commit(s, batch, accepted, now) ==
  IF accepted
    THEN s \cup {[col |-> batch[i].col, key |-> batch[i].key,
                  data |-> Resolve(batch[i].fields, now)] : i \in 1..Len(batch)}
    ELSE s

(***************************************************************************)
(* The hook and the component, as useState leaves them.                    *)
(***************************************************************************)
\* The six snapshots the hook keeps.
HookKinds == Kinds \cup {COLLECTIONS.VENDOR_INFO}

\* A snapshot is known by where its value came from (useState's initial
\* value, the fetch of an initializeData run, a listener of a run, or
\* setVendorInfo), by its length, and by the version of the store (the
\* server's clock) it reflects.
InitialData == [from |-> "useState", run |-> 0, n |-> 0, v |-> 0]

\* The snapshot a fetch or a listener of run r, made for the session u,
\* takes of collection k.
Fetched(from, r, s, k, u) ==
  [from |-> from, run |-> r, n |-> Cardinality(Query(s, k, u)), v |-> clock]

\* useFirebaseData's state on the first render with the session `u`.
HookInit(u) ==
  [currentUser |-> u,
   data |-> [k \in HookKinds |-> InitialData],
   loading |-> FALSE,
   initializing |-> TRUE,
   error |-> "null",
   permissionError |-> FALSE,
   indexError |-> FALSE,
   firebaseAvailable |-> TRUE,
   mounted |-> FALSE,
   deps |-> <<>>,
   effectRun |-> 0,
   runs |-> <<>>,
   invoked |-> {}]

\* MainAppContent's state on the first render.
AppInit ==
  [showMigrationModal |-> FALSE,
   useFirebase |-> FALSE,
   migrationCompleted |-> FALSE,
   hasShownMigration |-> FALSE,
   deps |-> <<>>]

\* Steps of the services that no hook takes part in.
Headless == UNCHANGED <<hook, app>>

(***************************************************************************)
(* The entity services and the hook's facade over them.  `u` is the        *)
(* session (currentUser.uid) of the client that calls.  The actions leave  *)
(* `last` to the specification, which records the call or does not.        *)
(***************************************************************************)
Init ==
  /\ store = {}
  /\ nextId = 0
  /\ clock = 0
  /\ kind \in Kinds
  /\ last = Call("none", NoOwner, "", EmptyFields, <<>>, FALSE)
  /\ listener = [attached |-> FALSE, owner |-> NoOwner, pending |-> FALSE]
  /\ snapshot = <<>>
  /\ vcalls = <<>>
  /\ vlog = [o \in Owners |-> <<>>]
  /\ localData = NoLocalData
  /\ mig = NoMigration
  /\ hook = HookInit(NoOwner)
  /\ app = AppInit

Idle == UNCHANGED <<vcalls, vlog, localData, mig, kind>>

\* addX(e) -> xService.add(e, currentUser.uid)
Add(u, e) ==
  /\ nextId < MaxDocs
  /\ clock < MaxClock
  /\ store' = addDoc(store, kind, AutoId(nextId + 1), AddFields(kind, e, u), clock + 1)
  /\ nextId' = nextId + 1
  /\ clock' = clock + 1
  /\ listener' = Notify(listener, store, store')
  /\ UNCHANGED snapshot
  /\ Idle

\* updateX(id, patch) -> xService.update(id, patch); updateDoc fails on a
\* document that does not exist.
Update(u, id, patch) ==
  /\ clock < MaxClock
  /\ IF Exists(store, kind, id)
       THEN /\ store' = updateDoc(store, kind, id, UpdateFields(kind, patch), clock + 1)
            /\ clock' = clock + 1
       ELSE UNCHANGED <<store, clock>>
  /\ listener' = Notify(listener, store, store')
  /\ UNCHANGED <<nextId, snapshot>>
  /\ Idle

\* deleteX(id) -> xService.delete(id)
Delete(u, id) ==
  /\ store' = deleteDoc(store, kind, id)
  /\ listener' = Notify(listener, store, store')
  /\ UNCHANGED <<nextId, clock, snapshot>>
  /\ Idle

\* contactsService.getById(id)
GetById(u, id) ==
  /\ kind = "contacts"
  /\ last' = Call("getById", u, id, EmptyFields,
                  IF Exists(store, kind, id) THEN <<Entity(DocAt(store, kind, id))>>
                                             ELSE <<>>,
                  FALSE)
  /\ UNCHANGED <<store, nextId, clock, listener, snapshot>>
  /\ Idle

\* xService.getAll(userId)
GetAll(userId) ==
  /\ \E docs \in Orderings(Query(store, kind, userId)) :
       last' = Call("getAll", userId, "", EmptyFields, getAllResult(kind, docs), FALSE)
  /\ UNCHANGED <<store, nextId, clock, listener, snapshot>>
  /\ Idle

\* A call the store rejects (permission, transport): the service logs and
\* rethrows, nothing is written.
Rejected(op) ==
  /\ last' = Call(op, NoOwner, "", EmptyFields, <<>>, TRUE)
  /\ UNCHANGED <<store, nextId, clock, listener, snapshot>>
  /\ Idle

\* xService.onSnapshot(callback, userId, onError)
Subscribe(userId) ==
  /\ ~listener.attached
  /\ listener' = [attached |-> TRUE, owner |-> userId, pending |-> TRUE]
  /\ UNCHANGED <<store, nextId, clock, last, snapshot>>
  /\ Idle

\* The store delivers a snapshot: the listener maps, sorts and calls back.
Deliver ==
  /\ listener.attached
  /\ listener.pending
  /\ \E docs \in Orderings(Query(store, kind, listener.owner)) :
       snapshot' = setSnapshot(snapshot, snapshotResult(kind, docs))
  /\ listener' = [listener EXCEPT !.pending = FALSE]
  /\ UNCHANGED <<store, nextId, clock, last>>
  /\ Idle

\* The function onSnapshot returned is called.
Unsubscribe ==
  /\ listener.attached
  /\ listener' = [listener EXCEPT !.attached = FALSE, !.pending = FALSE]
  /\ UNCHANGED <<store, nextId, clock, last, snapshot>>
  /\ Idle

Keys == {AutoId(n) : n \in 1..MaxDocs}

\* The services as one client calls them and sees the outcome.
Next ==
  \/ \E u \in Owners, e \in Entities(kind) :
       Add(u, e) /\ last' = Call("add", u, AutoId(nextId + 1), e, <<>>, FALSE)
         /\ Headless
  \/ \E u \in Owners, id \in Keys, patch \in Patches(kind) :
       Update(u, id, patch)
         /\ last' = Call("update", u, id, patch, <<>>, ~Exists(store, kind, id))
         /\ Headless
  \/ \E u \in Owners, id \in Keys :
       Delete(u, id) /\ last' = Call("delete", u, id, EmptyFields, <<>>, FALSE)
         /\ Headless
  \/ \E u \in Owners, id \in Keys : GetById(u, id) /\ Headless
  \/ \E userId \in OwnerArgs : GetAll(userId) /\ Headless
  \/ \E op \in {"add", "update", "delete", "getAll"} : Rejected(op) /\ Headless

Spec == Init /\ [][Next]_vars

\* The same services written to by any client, watched through a listener.
NextListen ==
  \/ \E u \in Owners, e \in Entities(kind) : Add(u, e) /\ UNCHANGED last /\ Headless
  \/ \E u \in Owners, id \in Keys, patch \in Patches(kind) :
       Update(u, id, patch) /\ UNCHANGED last /\ Headless
  \/ \E u \in Owners, id \in Keys : Delete(u, id) /\ UNCHANGED last /\ Headless
  \/ \E userId \in OwnerArgs : Subscribe(userId) /\ Headless
  \/ Deliver /\ Headless
  \/ Unsubscribe /\ Headless

SpecListen == Init /\ [][NextListen]_vars

(***************************************************************************)
(* Properties of the entity services.                                      *)
(***************************************************************************)
Range(list) == {list[i] : i \in 1..Len(list)}

OwnedBy(e, userId) == "userId" \in DOMAIN e /\ e["userId"] = Str(userId)

\* C1: every document a getAll call returns has userId equal to the owner
\* argument of the call, whatever that argument is (an absent one
\* included); an owner without documents gets the empty list.
C1_ReadsAreOwnerIsolated ==
  (last.op = "getAll" /\ ~last.threw) =>
    \A e \in Range(last.out) : OwnedBy(e, last.caller)

\* C2: an update or delete issued by the session of owner A changes or
\* removes no document of another owner, and a getById issued by A returns
\* no document of another owner, whatever id is passed.
C2_NoCrossOwnerAccess ==
  [][/\ last'.op \in {"update", "delete"} =>
          \A d \in store : d \notin store' => OwnedBy(d.data, last'.caller)
     /\ last'.op = "getById" =>
          \A e \in Range(last'.out) : OwnedBy(e, last'.caller)]_vars

DateKinds == {"orders", "notes", "reminders"}

NameKinds == {"contacts", "products"}

\* The canonical order of the spec's table: reminders by due date ascending,
\* orders and notes by date descending.
DateOrdered(k, list) ==
  \A i, j \in 1..Len(list) :
    i < j =>
      IF k = "reminders"
        THEN getTime(list[i][SortField(k)]) <= getTime(list[j][SortField(k)])
        ELSE getTime(list[i][SortField(k)]) >= getTime(list[j][SortField(k)])

NameOrdered(list) ==
  \A i, j \in 1..Len(list) :
    i < j => localeCompare(list[i]["name"].v, list[j]["name"].v) <= 0

\* C7: for orders, notes and reminders, the list getAll returned, and the
\* list getAll returns and the list a listener delivers for every owner
\* argument and every order in which the store hands back the documents, is
\* in date order: descending for orders and notes, ascending for reminders.
C7_DateOrderedKinds ==
  kind \in DateKinds =>
    /\ (last.op = "getAll" /\ ~last.threw) => DateOrdered(kind, last.out)
    /\ \A userId \in OwnerArgs : \A docs \in Orderings(Query(store, kind, userId)) :
         /\ DateOrdered(kind, getAllResult(kind, docs))
         /\ DateOrdered(kind, snapshotResult(kind, docs))

\* C7 witness: getAll returned two documents that were created in the
\* opposite of their listing order (the later-created one comes first).
C7_Witness ==
  /\ kind \in DateKinds
  /\ last.op = "getAll"
  /\ Len(last.out) = 2
  /\ getTime(last.out[1][SortField(kind)]) # getTime(last.out[2][SortField(kind)])
  /\ getTime(last.out[1]["createdAt"]) > getTime(last.out[2]["createdAt"])

\* C8: for contacts and products, the list a getAll call returns is sorted
\* by name ascending, in whatever order the store returned the documents.
C8_NameOrderedKinds ==
  (kind \in NameKinds /\ last.op = "getAll") => NameOrdered(last.out)

\* C10: for every kind, an update(id, {field: v}) of an existing document
\* sets that field to v, keeps every other field (createdAt included) and
\* refreshes updatedAt to the time of the write.
C10_PartialPatchUpdate ==
  [][(last'.op = "update" /\ ~last'.threw) =>
       LET old == DocAt(store, kind, last'.key).data
           new == DocAt(store', kind, last'.key).data
           patch == convertDatesToTimestamps(last'.arg)
       IN /\ \A f \in DOMAIN patch : new[f] = patch[f]
          /\ \A f \in (DOMAIN old) \ ((DOMAIN patch) \cup {"updatedAt"}) :
               f \in DOMAIN new /\ new[f] = old[f]
          /\ new["createdAt"] = old["createdAt"]
          /\ "updatedAt" \in DOMAIN new
          /\ new["updatedAt"] = TimestampV(clock')
          /\ ("updatedAt" \in DOMAIN old => new["updatedAt"] # old["updatedAt"])]_vars

(***************************************************************************)
(* Properties of the listener.                                             *)
(***************************************************************************)
\* C9: every delivery to the listener's callback carries the complete
\* current list of the documents matching its owner (each once, as the
\* entity the client sees), and the hook's state is exactly that list.
C9_FullReplaceDelivery ==
  [][(listener.attached /\ listener.pending /\ listener'.attached /\ ~listener'.pending) =>
       /\ Len(snapshot') = Cardinality(Query(store', kind, listener.owner))
       /\ Range(snapshot') = {Entity(d) : d \in Query(store', kind, listener.owner)}]_vars

\* C9 witness: the hook holds a delivered list of two documents, one of
\* them updated after it was created, and no newer delivery is pending.
C9_Witness ==
  /\ listener.attached
  /\ ~listener.pending
  /\ Len(snapshot) = 2
  /\ Range(snapshot) = {Entity(d) : d \in Query(store, kind, listener.owner)}
  /\ \E e \in Range(snapshot) :
       "updatedAt" \in DOMAIN e /\ getTime(e["updatedAt"]) > getTime(e["createdAt"])

(***************************************************************************)
(* vendorInfoService.set and migrationService.migrateAllData.  set awaits  *)
(* its query and then its write; migrateAllData fills the batch without    *)
(* awaiting and then awaits the commit.                                    *)
(***************************************************************************)
InitVendor ==
  /\ store = {}
  /\ nextId = 0
  /\ clock = 0
  /\ kind = COLLECTIONS.VENDOR_INFO
  /\ last = Call("none", NoOwner, "", EmptyFields, <<>>, FALSE)
  /\ listener = [attached |-> FALSE, owner |-> NoOwner, pending |-> FALSE]
  /\ snapshot = <<>>
  /\ vcalls = <<>>
  /\ vlog = [o \in Owners |-> <<>>]
  /\ localData \in {d \in LocalDatasets : \A k \in Kinds : d[k] = <<>>}
  /\ mig = NoMigration
  /\ hook = HookInit(NoOwner)
  /\ app = AppInit

InitMigrate ==
  /\ store = {}
  /\ nextId = 0
  /\ clock = 0
  /\ kind = COLLECTIONS.VENDOR_INFO
  /\ last = Call("none", NoOwner, "", EmptyFields, <<>>, FALSE)
  /\ listener = [attached |-> FALSE, owner |-> NoOwner, pending |-> FALSE]
  /\ snapshot = <<>>
  /\ vcalls = <<>>
  /\ vlog = [o \in Owners |-> <<>>]
  /\ localData \in LocalDatasets
  /\ mig = NoMigration
  /\ hook = HookInit(NoOwner)
  /\ app = AppInit

Unwatched == UNCHANGED <<kind, last, listener, snapshot, localData>>

\* A set call that takes every query snapshot for empty.
VendorFoundNever(docs) == ""

\* What set does with the answer of its query: the id of
\* querySnapshot.docs[0] to update, or none when the snapshot is empty.
VendorFound(docs) == IF docs = <<>> THEN "" ELSE docs[1].key

\* set(vendorInfo, userId), up to the answer of its query.
VendorSetQuery(userId, vendorInfo) ==
  /\ Len(vcalls) < MaxSetCalls
  /\ \E docs \in Orderings(Query(store, "vendorInfo", userId)) :
       vcalls' = Append(vcalls,
                        [owner |-> userId, payload |-> vendorInfo, phase |-> "write",
                         found |-> VendorFound(docs)])
  /\ UNCHANGED <<store, nextId, clock, vlog, mig>>
  /\ Unwatched

\* set, from the answer of its query on: update the document found, or
\* create one.
VendorSetWrite(i) ==
  /\ vcalls[i].phase = "write"
  /\ clock < MaxClock
  /\ LET c == vcalls[i] IN
       /\ IF c.found # ""
            THEN /\ store' = updateDoc(store, "vendorInfo", c.found,
                                       Spread(c.payload,
                                              [userId |-> Str(c.owner),
                                               updatedAt |-> serverTimestamp]),
                                       clock + 1)
                 /\ UNCHANGED nextId
            ELSE /\ store' = addDoc(store, "vendorInfo", AutoId(nextId + 1),
                                    Spread(c.payload,
                                           [userId |-> Str(c.owner),
                                            createdAt |-> serverTimestamp,
                                            updatedAt |-> serverTimestamp]),
                                    clock + 1)
                 /\ nextId' = nextId + 1
       /\ vlog' = [vlog EXCEPT ![c.owner] = Append(@, c.payload)]
  /\ clock' = clock + 1
  /\ vcalls' = [vcalls EXCEPT ![i].phase = "done"]
  /\ UNCHANGED mig
  /\ Unwatched

\* The store rejects the write of a set call: set logs and rethrows.
VendorSetRejected(i) ==
  /\ vcalls[i].phase = "write"
  /\ vcalls' = [vcalls EXCEPT ![i].phase = "threw"]
  /\ UNCHANGED <<store, nextId, clock, vlog, mig>>
  /\ Unwatched

\* migrateAllData(localData, userId), up to the call of batch.commit().
MigrateCall(userId) ==
  /\ mig.phase = "idle"
  /\ Len(mig.done) < MaxMigrations
  /\ LET batch == BuildBatch(localData, userId, nextId) IN
       /\ mig' = [mig EXCEPT !.phase = "committing", !.owner = userId, !.batch = batch]
       /\ nextId' = nextId + Len(batch)
  /\ UNCHANGED <<store, clock, vcalls, vlog>>
  /\ Unwatched

\* The commit settles: accepted (migrateAllData returns) or rejected (it
\* logs and rethrows).
MigrateSettle(accepted) ==
  /\ mig.phase = "committing"
  /\ accepted => clock < MaxClock
  /\ store' = commit(store, mig.batch, accepted, clock + 1)
  /\ clock' = IF accepted THEN clock + 1 ELSE clock
  /\ mig' = [mig EXCEPT !.phase = "idle",
                        !.done = Append(@, [owner |-> mig.owner, batch |-> mig.batch,
                                            threw |-> ~accepted])]
  /\ UNCHANGED <<nextId, vcalls, vlog>>
  /\ Unwatched

NoSetInFlight == \A i \in 1..Len(vcalls) : vcalls[i].phase # "write"

\* set calls made one after the other.
NextVendorSeq ==
  \/ \E u \in Owners, v \in VendorPayloads :
       NoSetInFlight /\ VendorSetQuery(u, v) /\ Headless
  \/ \E i \in 1..Len(vcalls) : VendorSetWrite(i) /\ Headless
  \/ \E i \in 1..Len(vcalls) : VendorSetRejected(i) /\ Headless

InitVendorSeq == InitVendor /\ localData = NoLocalData

SpecVendorSeq == InitVendorSeq /\ [][NextVendorSeq]_vars

\* set calls and migrations of a vendor profile, overlapping freely.
NextVendor ==
  \/ \E u \in Owners, v \in VendorPayloads : VendorSetQuery(u, v) /\ Headless
  \/ \E i \in 1..Len(vcalls) : VendorSetWrite(i) /\ Headless
  \/ \E i \in 1..Len(vcalls) : VendorSetRejected(i) /\ Headless
  \/ \E u \in Owners : MigrateCall(u) /\ Headless
  \/ \E accepted \in BOOLEAN : MigrateSettle(accepted) /\ Headless

SpecVendor == InitVendor /\ [][NextVendor]_vars

\* Migrations of a local dataset.
NextMigrate ==
  \/ \E u \in Owners : MigrateCall(u) /\ Headless
  \/ \E accepted \in BOOLEAN : MigrateSettle(accepted) /\ Headless

SpecMigrate == InitMigrate /\ [][NextMigrate]_vars

(***************************************************************************)
(* Properties of the migration.                                            *)
(***************************************************************************)
Written(batch) == {d \in store : \E i \in 1..Len(batch) : d.key = batch[i].key}

Returned == {i \in 1..Len(mig.done) : ~mig.done[i].threw}

\* C3: a migration that returned has every write of its batch in the store
\* (N new documents for a dataset of N records), a migration that threw or
\* is still in flight has none, a rejected commit makes it throw, and the
\* store never holds a part of a batch.
C3_MigrationAllOrNothing ==
  /\ \A i \in 1..Len(mig.done) :
       LET r == mig.done[i] IN
         /\ Len(r.batch) = Len(SourceRecords(localData, 1)) + Len(localData["vendorInfo"])
         /\ Cardinality(Written(r.batch)) = IF r.threw THEN 0 ELSE Len(r.batch)
  /\ mig.phase = "committing" => Written(mig.batch) = {}
  /\ store = UNION {Written(mig.done[i].batch) : i \in Returned}

\* C3 witness: of two migrations of a dataset with a record of every kind
\* and a vendor profile, one threw and the other returned.
C3_Witness ==
  /\ Len(mig.done) = 2
  /\ Len(mig.done[1].batch) = 6
  /\ mig.done[1].threw
  /\ ~mig.done[2].threw
  /\ Cardinality(store) = 6

RECURSIVE Holds(_, _)
Holds(x, id) ==
  \/ x = id
  \/ x.t = "object" /\ \E f \in DOMAIN x.v : Holds(x.v[f], id)
  \/ x.t = "array" /\ \E i \in 1..Len(x.v) : Holds(x.v[i], id)

\* C4: every document a migration that returned wrote for a record of an
\* entity kind has a key that is the id of no source record, holds the
\* record's local id in none of its fields, and has userId equal to the
\* owner the migration was called with.
C4_MigrationDiscardsLocalIds ==
  \A r \in Returned :
    LET src == SourceRecords(localData, 1) IN
      \A i \in 1..Len(src) :
        LET d == DocAt(store, src[i].col, mig.done[r].batch[i].key) IN
          /\ \A j \in 1..Len(src) : Str(d.key) # src[j].record["id"]
          /\ ~Holds(Obj(d.data), src[i].record["id"])
          /\ d.data["userId"] = Str(mig.done[r].owner)

(***************************************************************************)
(* Properties of the vendor profile.                                       *)
(***************************************************************************)
\* C5: once set calls made one after the other have completed for an owner,
\* the vendorInfo collection holds exactly one document with that owner's
\* userId, and it holds every field value of the payload of the last call
\* that completed.
C5_VendorSetTwice ==
  NoSetInFlight =>
    \A o \in Owners :
      vlog[o] # <<>> =>
        /\ Cardinality(Query(store, "vendorInfo", o)) = 1
        /\ \A d \in Query(store, "vendorInfo", o) :
             \A f \in DOMAIN vlog[o][Len(vlog[o])] :
               f \in DOMAIN d.data /\ d.data[f] = vlog[o][Len(vlog[o])][f]

\* C5 witness: two set calls with different payloads have completed for one
\* owner, and the document holds the second payload's name.
C5_Witness ==
  /\ NoSetInFlight
  /\ \E o \in Owners :
       /\ Len(vlog[o]) = 2
       /\ vlog[o][1]["name"] # vlog[o][2]["name"]
       /\ \E d \in Query(store, "vendorInfo", o) : d.data["name"] = vlog[o][2]["name"]

\* C6: in every state after a set call has completed for an owner, the
\* vendorInfo collection holds at most one document with that owner's
\* userId, however set calls and migrations of a vendor profile overlap.
C6_VendorSingleton ==
  \A o \in Owners :
    vlog[o] # <<>> => Cardinality(Query(store, "vendorInfo", o)) <= 1

(***************************************************************************)
(* Identity fields.  update takes a Partial<Entity> and writes every field *)
(* of it; the forms hand the whole edited record, id included, to updateX. *)
(***************************************************************************)
\* Patches that name an identity field.
IdentityPatches(k) ==
  Patches(k) \cup {[f \in {"userId"} |-> Str(u)] : u \in Owners}
             \cup {[f \in {"id"} |-> Str(key)] : key \in Keys}

NextIdentity ==
  \/ \E u \in Owners, e \in Entities(kind) :
       Add(u, e) /\ last' = Call("add", u, AutoId(nextId + 1), e, <<>>, FALSE)
         /\ Headless
  \/ \E u \in Owners, id \in Keys, patch \in IdentityPatches(kind) :
       Update(u, id, patch)
         /\ last' = Call("update", u, id, patch, <<>>, ~Exists(store, kind, id))
         /\ Headless
  \/ \E u \in Owners, id \in Keys :
       Delete(u, id) /\ last' = Call("delete", u, id, EmptyFields, <<>>, FALSE)
         /\ Headless
  \/ \E u \in Owners, id \in Keys : GetById(u, id) /\ Headless
  \/ \E userId \in Owners : GetAll(userId) /\ Headless

SpecIdentity == Init /\ [][NextIdentity]_vars

\* C11: no operation changes the userId of a stored document (it stays the
\* owner the document was created with), and the ids getAll and getById
\* report are the keys the store assigned to the documents they read.
C11_IdentityImmutable ==
  [][/\ \A d \in store, e \in store' :
          (d.col = e.col /\ d.key = e.key) => e.data["userId"] = d.data["userId"]
     /\ last'.op = "add" =>
          DocAt(store', kind, last'.key).data["userId"] = Str(last'.caller)
     /\ last'.op = "getAll" =>
          {e["id"] : e \in Range(last'.out)}
            = {Str(d.key) : d \in Query(store', kind, last'.caller)}
     /\ last'.op = "getById" =>
          \A e \in Range(last'.out) : e["id"] = Str(last'.key)]_vars

(***************************************************************************)
(* The timestamp codec on its own: a structure is encoded for the store    *)
(* and the stored value is decoded again.                                  *)
(***************************************************************************)
CodecFields == {"lastContact", "preferences"}

Primitives == {Str(NameOrder[1]), Num(0)}

\* Primitives, native dates and arrays of primitives.
Leaves ==
  Primitives \cup {DateV(d) : d \in Dates} \cup {Arr(<<>>), Arr(<<Str(NameOrder[1])>>)}

\* Plain objects nested to the given depth.
RECURSIVE Structures(_)
Structures(depth) ==
  LET values == IF depth = 0 THEN Leaves
                ELSE Leaves \cup {Obj(x) : x \in Structures(depth - 1)}
  IN UNION {[D -> values] : D \in (SUBSET CodecFields) \ {{}}}

InitCodec ==
  /\ store = {}
  /\ nextId = 0
  /\ clock = 0
  /\ kind = COLLECTIONS.CONTACTS
  /\ \E x \in Structures(MaxDepth) : last = Call("input", NoOwner, "", x, <<>>, FALSE)
  /\ listener = [attached |-> FALSE, owner |-> NoOwner, pending |-> FALSE]
  /\ snapshot = <<>>
  /\ vcalls = <<>>
  /\ vlog = [o \in Owners |-> <<>>]
  /\ localData = NoLocalData
  /\ mig = NoMigration
  /\ hook = HookInit(NoOwner)
  /\ app = AppInit

\* convertDatesToTimestamps(x), as add and update apply it before writing.
Encode ==
  /\ last.op = "input"
  /\ last' = [last EXCEPT !.op = "toStore",
                          !.out = <<convertDatesToTimestamps(last.arg)>>]
  /\ UNCHANGED <<store, nextId, clock, kind, listener, snapshot, vcalls, vlog,
                 localData, mig, hook, app>>

\* convertTimestamps(doc.data()), as getAll and the listeners apply it.
Decode ==
  /\ last.op = "toStore"
  /\ last' = [last EXCEPT !.op = "fromStore",
                          !.out = <<convertTimestamps(last.out[1])>>]
  /\ UNCHANGED <<store, nextId, clock, kind, listener, snapshot, vcalls, vlog,
                 localData, mig, hook, app>>

NextCodec == Encode \/ Decode

SpecCodec == InitCodec /\ [][NextCodec]_vars

\* C12: decoding what the encoding of a structure gave returns the
\* structure: dates come back as equal dates, arrays as the same arrays,
\* every other value unchanged.
C12_CodecRoundTrip == last.op = "fromStore" => last.out[1] = last.arg

(***************************************************************************)
(* Reading back what was added.                                            *)
(***************************************************************************)
\* What the entity `d` read from the store has to show for the entity `e`
\* added by `owner` under the key `key`.
ReadsBack(d, e, owner, key) ==
  /\ d["id"] = Str(key)
  /\ \A f \in DOMAIN e : f \in DOMAIN d /\ d[f] = e[f]
  /\ OwnedBy(d, owner)
  /\ {"createdAt", "updatedAt"} \subseteq DOMAIN d

\* C13: right after add(e, owner) returned the id i, getAll(owner) (and
\* getById(i) for contacts) returns a document with id i, e's field values,
\* userId = owner, and both createdAt and updatedAt set.
C13_ReadYourWrites ==
  [][(last'.op = "add" /\ ~last'.threw) =>
       /\ \A docs \in Orderings(Query(store', kind, last'.caller)) :
            \E d \in Range(getAllResult(kind, docs)) :
              ReadsBack(d, last'.arg, last'.caller, last'.key)
       /\ kind = "contacts" =>
            ReadsBack(Entity(DocAt(store', kind, last'.key)),
                      last'.arg, last'.caller, last'.key)]_vars

(***************************************************************************)
(* useFirebaseData.  React runs the effect after every render in which     *)
(* currentUser or initializeData changed; initializeData is rebuilt when   *)
(* currentUser or firebaseAvailable changes.  The effect of a render runs  *)
(* before anything else updates the state, and the state updates of one    *)
(* continuation (try / catch / finally) are rendered together.             *)
(***************************************************************************)
ErrorCodes == {"permission-denied", "failed-precondition", "unavailable"}

\* The message handleFirebaseError shows for an error code.
ErrorMessage(code) ==
  CASE code = "permission-denied"   -> "Permission refusee"
    [] code = "failed-precondition" -> "Index Firebase manquant"
    [] OTHER                        -> "Une erreur est survenue"

\* An error handler that only marks the store unavailable.
handleFirebaseErrorSilent(h, code) ==
  [h EXCEPT !.firebaseAvailable = FALSE, !.initializing = FALSE]

handleFirebaseError(h, code) ==
  [h EXCEPT !.permissionError = IF code = "permission-denied" THEN TRUE ELSE @,
            !.indexError = IF code = "failed-precondition" THEN TRUE ELSE @,
            !.error = ErrorMessage(code),
            !.firebaseAvailable = FALSE,
            !.initializing = FALSE]

\* The dependencies of the effect, as the current render has them.
EffectDeps(h) == <<h.currentUser, h.firebaseAvailable>>

\* The effect has not run for the current render yet.
EffectDue(h) == h.deps # EffectDeps(h)

\* initializeData(), up to its await: without a session it only clears
\* `initializing`; with one it resets the error state and starts the six
\* fetches.
StartRun(h, by) ==
  IF h.currentUser = NoOwner
    THEN [h EXCEPT !.initializing = FALSE]
    ELSE [h EXCEPT !.loading = TRUE,
                   !.error = "null",
                   !.permissionError = FALSE,
                   !.indexError = FALSE,
                   !.firebaseAvailable = TRUE,
                   !.runs = Append(@, [owner |-> h.currentUser, by |-> by,
                                       phase |-> "fetching", cancelled |-> FALSE,
                                       subs |-> {}, read |-> <<>>])]

\* The cleanup the previous effect returned: cleanup.then(fn => fn && fn())
\* unsubscribes the listeners of the run that effect started, now or as
\* soon as the run has attached them.
Cleanup(h) ==
  IF h.effectRun = 0 THEN h
  ELSE [h EXCEPT !.runs[h.effectRun].cancelled = TRUE,
                 !.runs[h.effectRun].subs = {}]

\* The effect: clean up after the previous one, then initialize when there
\* is a session.
Effect(hk) ==
  LET h == [Cleanup(hk) EXCEPT !.mounted = TRUE, !.deps = EffectDeps(hk)] IN
  IF h.currentUser # NoOwner
    THEN [StartRun(h, "effect") EXCEPT !.effectRun = Len(h.runs) + 1]
    ELSE [h EXCEPT !.initializing = FALSE, !.effectRun = 0]

\* The commit of a render whose effect is due.
RunEffect ==
  /\ EffectDue(hook)
  /\ hook.currentUser # NoOwner => Len(hook.runs) < MaxRuns
  /\ hook' = Effect(hook)
  /\ UNCHANGED <<store, nextId, clock, kind, last, listener, snapshot, vcalls, vlog,
                 localData, mig, app>>

\* The store answers the getAll of `kind` of run r; Promise.all holds the
\* result until the other five fetches have resolved.
FetchRead(r) ==
  /\ ~EffectDue(hook)
  /\ hook.runs[r].phase = "fetching"
  /\ hook.runs[r].read = <<>>
  /\ hook' = [hook EXCEPT !.runs[r].read =
                            <<Fetched("fetch", r, store, kind, hook.runs[r].owner)>>]
  /\ UNCHANGED <<store, nextId, clock, kind, last, listener, snapshot, vcalls, vlog,
                 localData, mig, app>>

\* The six fetches of a run resolved: the snapshots are replaced (by the
\* answer held for `kind`, if one is held), the five listeners attached,
\* and `finally` clears loading and initializing.
SettleOk(r) ==
  /\ ~EffectDue(hook)
  /\ hook.runs[r].phase = "fetching"
  /\ hook' = [hook EXCEPT !.data = [k \in HookKinds |->
                                     IF k = kind /\ hook.runs[r].read # <<>>
                                       THEN hook.runs[r].read[1]
                                       ELSE Fetched("fetch", r, store, k,
                                                    hook.runs[r].owner)],
                          !.runs[r].phase = "ready",
                          !.runs[r].subs = IF hook.runs[r].cancelled THEN {} ELSE Kinds,
                          !.loading = FALSE,
                          !.initializing = FALSE]
  /\ UNCHANGED <<store, nextId, clock, kind, last, listener, snapshot, vcalls, vlog,
                 localData, mig, app>>

\* One of the six fetches rejected: Promise.all rejects, catch calls
\* handleFirebaseError, `finally` clears loading and initializing.
SettleFail(r, code) ==
  /\ ~EffectDue(hook)
  /\ hook.runs[r].phase = "fetching"
  /\ hook' = [handleFirebaseError(hook, code) EXCEPT !.runs[r].phase = "failed",
                                                     !.loading = FALSE,
                                                     !.initializing = FALSE]
  /\ UNCHANGED <<store, nextId, clock, kind, last, listener, snapshot, vcalls, vlog,
                 localData, mig, app>>

(***************************************************************************)
(* The hook's CRUD facade, called with or without a session.  For a call   *)
(* that threw, `last.out` holds the error.                                 *)
(***************************************************************************)
NotAuthenticated == Str("User not authenticated")

\* Reading currentUser.uid when currentUser is null.
TypeError == Str("TypeError")

\* A facade in which no callback checks the session.
RequiresSessionNever(op) == FALSE

\* The callbacks that begin with `if (!currentUser) throw new Error(...)`.
RequiresSession(op) == op \in {"add", "setVendorInfo", "migrate"}

\* The error a facade call fails with before it reaches a service, if any.
SessionError(op) ==
  IF hook.currentUser # NoOwner THEN <<>>
  ELSE IF RequiresSession(op) THEN <<NotAuthenticated>>
  ELSE IF op \in {"add", "setVendorInfo", "migrate"} THEN <<TypeError>>
  ELSE <<>>

\* A facade call that throws before any service is called.
FacadeThrows(op, arg) ==
  /\ ~EffectDue(hook)
  /\ SessionError(op) # <<>>
  /\ last' = Call(op, hook.currentUser, "", arg, SessionError(op), TRUE)
  /\ hook' = [hook EXCEPT !.invoked = {}]
  /\ UNCHANGED <<store, nextId, clock, kind, listener, snapshot, vcalls, vlog,
                 localData, mig, app>>

\* addContact, addProduct, addOrder, addNote, addReminder
FacadeAdd(e) ==
  /\ ~EffectDue(hook)
  /\ SessionError("add") = <<>>
  /\ Add(hook.currentUser, e)
  /\ last' = Call("add", hook.currentUser, AutoId(nextId + 1), e, <<>>, FALSE)
  /\ hook' = [hook EXCEPT !.invoked = {"addDoc"}]
  /\ UNCHANGED app

\* updateContact, updateProduct, updateOrder, updateNote, updateReminder
FacadeUpdate(id, patch) ==
  /\ ~EffectDue(hook)
  /\ SessionError("update") = <<>>
  /\ Update(hook.currentUser, id, patch)
  /\ last' = Call("update", hook.currentUser, id, patch, <<>>, ~Exists(store, kind, id))
  /\ hook' = [hook EXCEPT !.invoked = {"updateDoc"}]
  /\ UNCHANGED app

\* deleteContact, deleteProduct, deleteOrder, deleteNote, deleteReminder
FacadeDelete(id) ==
  /\ ~EffectDue(hook)
  /\ SessionError("delete") = <<>>
  /\ Delete(hook.currentUser, id)
  /\ last' = Call("delete", hook.currentUser, id, EmptyFields, <<>>, FALSE)
  /\ hook' = [hook EXCEPT !.invoked = {"deleteDoc"}]
  /\ UNCHANGED app

\* setVendorInfoData(vendorInfo), up to the answer of set's query.
FacadeSetVendorInfo(vendorInfo) ==
  /\ ~EffectDue(hook)
  /\ SessionError("setVendorInfo") = <<>>
  /\ NoSetInFlight
  /\ VendorSetQuery(hook.currentUser, vendorInfo)
  /\ hook' = [hook EXCEPT !.invoked = {"getDocs"}]
  /\ UNCHANGED app

\* A state setter that keeps the value the hook has.
setVendorInfoDropped(h, vendorInfo, now) == h

\* setVendorInfo(vendorInfo): the setter of the hook's vendorInfo state.
setVendorInfo(h, vendorInfo, now) ==
  [h EXCEPT !.data["vendorInfo"] =
     [from |-> "setVendorInfo", run |-> 0, n |-> 1, v |-> now, value |-> vendorInfo]]

\* set has written: setVendorInfo(vendorInfo) replaces the hook's value.
FacadeSetVendorInfoDone(i) ==
  /\ ~EffectDue(hook)
  /\ VendorSetWrite(i)
  /\ hook' = setVendorInfo([hook EXCEPT !.invoked = @ \cup {IF vcalls[i].found # ""
                                                              THEN "updateDoc"
                                                              ELSE "addDoc"}],
                           vcalls[i].payload, clock')
  /\ UNCHANGED app

\* set threw: the error goes to the caller.
FacadeSetVendorInfoFailed(i) ==
  /\ ~EffectDue(hook)
  /\ VendorSetRejected(i)
  /\ hook' = [hook EXCEPT !.invoked = @ \cup {IF vcalls[i].found # "" THEN "updateDoc"
                                                                  ELSE "addDoc"}]
  /\ UNCHANGED app

\* migrateToFirebase(localData), up to the call of batch.commit().
FacadeMigrate ==
  /\ ~EffectDue(hook)
  /\ SessionError("migrate") = <<>>
  /\ MigrateCall(hook.currentUser)
  /\ hook' = [hook EXCEPT !.invoked = {"commit"}]
  /\ UNCHANGED app

\* migrateAllData settled: when it returned, migrateToFirebase goes on with
\* `await initializeData()`; when it threw, migrateToFirebase throws.
FacadeMigrateSettle(accepted) ==
  /\ ~EffectDue(hook)
  /\ accepted => Len(hook.runs) < MaxRuns
  /\ MigrateSettle(accepted)
  /\ hook' = IF accepted THEN StartRun(hook, "migrate") ELSE hook
  /\ UNCHANGED app

\* The session ends (AuthContext's currentUser becomes null).
Logout ==
  /\ ~EffectDue(hook)
  /\ hook.currentUser # NoOwner
  /\ hook' = [hook EXCEPT !.currentUser = NoOwner]
  /\ UNCHANGED <<store, nextId, clock, kind, last, listener, snapshot, vcalls, vlog,
                 localData, mig, app>>

\* The entities and patches the facade is called with.
FacadeEntities(k) == {e \in Entities(k) : e[OtherField(k)] = Num(0)}

FacadePatches(k) == {patch \in Patches(k) : DOMAIN patch = {OtherField(k)}}

FacadePayloads == {v \in VendorPayloads : DOMAIN v = {"name"}}

\* One local dataset for the facade: a contact and a vendor profile.
FacadeDatasets ==
  {LocalData([k \in Kinds |-> IF k = "contacts" THEN 1 ELSE 0], FALSE, <<v>>) :
     v \in FacadePayloads}

\* A hook mounted with or without a session, over one of the services.
InitFacade ==
  /\ store = {}
  /\ nextId = 0
  /\ clock = 0
  /\ kind \in HookKinds
  /\ last = Call("none", NoOwner, "", EmptyFields, <<>>, FALSE)
  /\ listener = [attached |-> FALSE, owner |-> NoOwner, pending |-> FALSE]
  /\ snapshot = <<>>
  /\ vcalls = <<>>
  /\ vlog = [o \in Owners |-> <<>>]
  /\ localData \in IF kind = "vendorInfo" THEN FacadeDatasets ELSE {NoLocalData}
  /\ mig = NoMigration
  /\ \E u \in OwnerArgs : hook = HookInit(u)
  /\ app = AppInit

NextFacade ==
  \/ RunEffect
  \/ \E r \in 1..Len(hook.runs) : SettleOk(r)
  \/ \E r \in 1..Len(hook.runs), code \in ErrorCodes : SettleFail(r, code)
  \/ kind \in Kinds /\ \E e \in FacadeEntities(kind) : FacadeThrows("add", e)
  \/ kind = "vendorInfo" /\ \E v \in FacadePayloads : FacadeThrows("setVendorInfo", v)
  \/ kind = "vendorInfo" /\ FacadeThrows("migrate", EmptyFields)
  \/ kind \in Kinds /\ \E e \in FacadeEntities(kind) : FacadeAdd(e)
  \/ kind \in Kinds /\ \E id \in Keys, patch \in FacadePatches(kind) :
       FacadeUpdate(id, patch)
  \/ kind \in Kinds /\ \E id \in Keys : FacadeDelete(id)
  \/ kind = "vendorInfo" /\ \E v \in FacadePayloads : FacadeSetVendorInfo(v)
  \/ \E i \in 1..Len(vcalls) : FacadeSetVendorInfoDone(i)
  \/ \E i \in 1..Len(vcalls) : FacadeSetVendorInfoFailed(i)
  \/ kind = "vendorInfo" /\ FacadeMigrate
  \/ \E accepted \in BOOLEAN : FacadeMigrateSettle(accepted)
  \/ Logout

SpecFacade == InitFacade /\ [][NextFacade]_vars

CreationOps == {"add", "setVendorInfo", "migrate"}

\* A step in which a facade call of one of `ops` is made without a session
\* and settles.
CallWithoutSession(ops) ==
  /\ hook.currentUser = NoOwner
  /\ last'.op \in ops
  /\ last'.caller = NoOwner
  /\ last' # last

\* C14: without a session, every addX, setVendorInfo and migrateToFirebase
\* call throws the not-authenticated error, and the call invokes no store
\* operation and changes nothing in the store.
C14_CreationFailsFastWithoutSession ==
  [][CallWithoutSession(CreationOps) =>
       /\ last'.threw
       /\ last'.out = <<NotAuthenticated>>
       /\ hook'.invoked = {}
       /\ UNCHANGED <<store, nextId, clock, vcalls, mig>>
       /\ hook'.runs = hook.runs]_vars

\* C14 witness: after a session that added a document has ended, a creation
\* call made without a session has thrown.
C14_Witness ==
  /\ hook.currentUser = NoOwner
  /\ store # {}
  /\ last.op \in CreationOps
  /\ last.caller = NoOwner
  /\ last.threw

\* C15: without a session, every updateX and deleteX call throws the
\* not-authenticated error and invokes no store operation.
C15_EveryCallFailsFastWithoutSession ==
  [][CallWithoutSession({"update", "delete"}) =>
       /\ last'.threw
       /\ last'.out = <<NotAuthenticated>>
       /\ hook'.invoked = {}
       /\ UNCHANGED store]_vars

(***************************************************************************)
(* The hook's life: sessions, initializeData runs, listeners, local mode.  *)
(* The listener followed is the one of the collection `kind`.              *)
(***************************************************************************)
\* A listener of run r calls back with a snapshot: setContacts(list), ...
ListenerDeliver(r) ==
  /\ ~EffectDue(hook)
  /\ kind \in hook.runs[r].subs
  /\ hook' = [hook EXCEPT !.data[kind] =
                            Fetched("listener", r, store, kind, hook.runs[r].owner)]
  /\ UNCHANGED <<store, nextId, clock, kind, last, listener, snapshot, vcalls, vlog,
                 localData, mig, app>>

\* A listener of run r fails: the store ends it and calls onError, which is
\* handleFirebaseError.
ListenerError(r, code) ==
  /\ ~EffectDue(hook)
  /\ kind \in hook.runs[r].subs
  /\ hook' = [handleFirebaseError(hook, code) EXCEPT !.runs[r].subs = @ \ {kind}]
  /\ UNCHANGED <<store, nextId, clock, kind, last, listener, snapshot, vcalls, vlog,
                 localData, mig, app>>

\* The caller invokes the initializeData the hook returns.
CallerInitialize ==
  /\ ~EffectDue(hook)
  /\ hook.currentUser # NoOwner => Len(hook.runs) < MaxRuns
  /\ hook' = StartRun(hook, "caller")
  /\ UNCHANGED <<store, nextId, clock, kind, last, listener, snapshot, vcalls, vlog,
                 localData, mig, app>>

useLocalMode(h) ==
  [h EXCEPT !.firebaseAvailable = FALSE,
            !.error = "null",
            !.permissionError = FALSE,
            !.indexError = FALSE,
            !.initializing = FALSE]

\* The caller invokes the useLocalMode the hook returns.
UseLocalMode ==
  /\ ~EffectDue(hook)
  /\ hook' = useLocalMode(hook)
  /\ UNCHANGED <<store, nextId, clock, kind, last, listener, snapshot, vcalls, vlog,
                 localData, mig, app>>

\* The session changes: another account signs in, or the account signs out.
SetSession(u) ==
  /\ ~EffectDue(hook)
  /\ u # hook.currentUser
  /\ hook' = [hook EXCEPT !.currentUser = u]
  /\ UNCHANGED <<store, nextId, clock, kind, last, listener, snapshot, vcalls, vlog,
                 localData, mig, app>>

InitHook ==
  /\ store = {}
  /\ nextId = 0
  /\ clock = 0
  /\ kind \in Kinds
  /\ last = Call("none", NoOwner, "", EmptyFields, <<>>, FALSE)
  /\ listener = [attached |-> FALSE, owner |-> NoOwner, pending |-> FALSE]
  /\ snapshot = <<>>
  /\ vcalls = <<>>
  /\ vlog = [o \in Owners |-> <<>>]
  /\ localData = NoLocalData
  /\ mig = NoMigration
  /\ \E u \in OwnerArgs : hook = HookInit(u)
  /\ app = AppInit

NextHook ==
  \/ RunEffect
  \/ \E r \in 1..Len(hook.runs) : SettleOk(r)
  \/ \E r \in 1..Len(hook.runs), code \in ErrorCodes : SettleFail(r, code)
  \/ \E r \in 1..Len(hook.runs) : ListenerDeliver(r)
  \/ \E r \in 1..Len(hook.runs), code \in ErrorCodes : ListenerError(r, code)
  \/ CallerInitialize
  \/ UseLocalMode
  \/ \E u \in OwnerArgs : SetSession(u)

SpecHook == InitHook /\ [][NextHook]_vars

(***************************************************************************)
(* Properties of the hook's initialization.                                *)
(***************************************************************************)
\* Run r's fetches reject in this step.
RunFails(r) == hook.runs[r].phase = "fetching" /\ hook'.runs[r].phase = "failed"

\* The error state shows an error of the given code.
Classified(h, code) ==
  /\ h.error = ErrorMessage(code)
  /\ code = "permission-denied" => h.permissionError
  /\ code = "failed-precondition" => h.indexError

\* C16: when a fetch of an initializeData run rejects, the run replaces none
\* of the six snapshots, attaches no listener, and leaves the hook with a
\* non-null error classified permission-denied, missing-index or other, and
\* with loading and initializing false.
C16_NoPartialReadiness ==
  [][\A r \in 1..Len(hook.runs) :
       RunFails(r) =>
         /\ hook'.data = hook.data
         /\ \A q \in 1..Len(hook.runs) : hook'.runs[q].subs = hook.runs[q].subs
         /\ hook'.runs[r].subs = {}
         /\ hook'.error # "null"
         /\ \E code \in ErrorCodes : Classified(hook', code)
         /\ ~hook'.loading
         /\ ~hook'.initializing]_vars

\* C16 witness: a run has failed with permission-denied; the snapshots are
\* still the initial ones and the hook shows the classified error.
C16_Witness ==
  /\ \E r \in 1..Len(hook.runs) : hook.runs[r].phase = "failed"
  /\ \A k \in HookKinds : hook.data[k] = InitialData
  /\ Classified(hook, "permission-denied")
  /\ ~hook.loading
  /\ ~hook.initializing

\* The hook is in its error/unavailable state.
ErrorState(h) == h.error # "null" /\ ~h.firebaseAvailable

\* This step starts an initializeData run: six fetches are issued.
RunStarts == Len(hook'.runs) > Len(hook.runs)

\* The session differs from the one the last effect saw.
SessionChanged == hook.deps = <<>> \/ hook.deps[1] # hook.currentUser

\* C19: once a rejected fetch or a listener's onError has put the hook into
\* its error/unavailable state, a new initializeData run starts only when
\* the caller invokes initializeData or the session has changed.
C19_NoAutomaticRetry ==
  [][(ErrorState(hook) /\ RunStarts) =>
       \/ hook'.runs[Len(hook'.runs)].by = "caller"
       \/ SessionChanged]_vars

(***************************************************************************)
(* MainAppContent: the presentation layer over the hook.  It is rendered   *)
(* only with a session (ProtectedRoute).  `kind` is the collection the     *)
(* user works on; `localData` holds localContacts, localOrders, ...;       *)
(* every state is a render, and the effects of a render are committed      *)
(* before anything else happens.                                           *)
(***************************************************************************)
Bool(b) == [t |-> "boolean", v |-> b]

\* new Date()
Today == DateV(20)

\* Math.random().toString(36).substr(2, 9): some string of the generator's
\* range; nothing relates two draws.
FabricatedIds == {"r" \o ToString(n) : n \in 1..2}

\* useState(kefirCustomers), useState(recentOrders), useState(kefirProducts),
\* useState([]), useState(businessReminders), useState({name: ...}).
AppLocalData ==
  LocalData([k \in Kinds |-> IF k = "notes" THEN 0 ELSE 1], FALSE,
            <<[name |-> Str("Kefir A"), phone |-> Str("032")]>>)

\* useFirebase && migrationCompleted ? firebaseX : localX
UsesFirebaseData(a) == a.useFirebase /\ a.migrationCompleted

\* `if (firebaseLoading) return <loading screen>`
LoadingScreen(h) == h.loading

\* `if (firebaseError && firebaseAvailable) return <error screen>`: the
\* screen with the buttons "Utiliser en mode local" and "Réessayer".
ErrorScreen(h) == ~LoadingScreen(h) /\ h.error # "null" /\ h.firebaseAvailable

\* What the component passes to its views for collection k.
Shown(a, h, ld, k) ==
  IF UsesFirebaseData(a) THEN [source |-> "firebase", value |-> h.data[k]]
                         ELSE [source |-> "local", value |-> ld[k]]

AppEffectDeps(h, ld) ==
  <<h.loading, h.data["contacts"].n, h.data["products"].n, h.data["orders"].n,
    h.firebaseAvailable, Len(ld["contacts"])>>

AppEffectDue == app.deps # AppEffectDeps(hook, localData)

\* The component's effect; hasShownMigration is the localStorage item
\* 'firebase-migration-shown'.
AppEffect(a, h, ld) ==
  LET firebase == [a EXCEPT !.useFirebase = TRUE, !.migrationCompleted = TRUE] IN
  IF h.firebaseAvailable /\ ~h.loading
    THEN IF h.data["contacts"].n > 0 \/ h.data["products"].n > 0 \/ h.data["orders"].n > 0
           THEN firebase
         ELSE IF ~a.hasShownMigration /\ Len(ld["contacts"]) > 0
           THEN [a EXCEPT !.showMigrationModal = TRUE, !.hasShownMigration = TRUE]
         ELSE firebase
  ELSE IF ~h.firebaseAvailable
    THEN firebase
  ELSE a

\* The commit of a render: the hook's effect and the component's effect,
\* each when its dependencies changed, both seeing the rendered values;
\* their state updates are batched into the next render.
Commit ==
  /\ EffectDue(hook) \/ AppEffectDue
  /\ (EffectDue(hook) /\ hook.currentUser # NoOwner) => Len(hook.runs) < MaxRuns
  /\ hook' = IF EffectDue(hook) THEN Effect(hook) ELSE hook
  /\ app' = IF AppEffectDue
              THEN [AppEffect(app, hook, localData) EXCEPT
                      !.deps = AppEffectDeps(hook, localData)]
              ELSE app
  /\ UNCHANGED <<store, nextId, clock, kind, last, listener, snapshot, vcalls, vlog,
                 localData, mig>>

\* The views are rendered and react to the user.
MainUI ==
  /\ ~EffectDue(hook)
  /\ ~AppEffectDue
  /\ ~LoadingScreen(hook)
  /\ ~ErrorScreen(hook)
  /\ ~app.showMigrationModal

\* A handler took its local branch: setLocalX, no facade call.
LocalStep(op, arg, ld) ==
  /\ localData' = ld
  /\ last' = Call(op, "local", "", arg, <<>>, FALSE)
  /\ hook' = [hook EXCEPT !.invoked = {}]
  /\ UNCHANGED <<store, nextId, clock, kind, listener, snapshot, vcalls, vlog, mig, app>>

\* A handler took its Firebase branch: facade calls that left the store as
\* s after `writes` accepted writes, having invoked the store operations ops.
FacadeStep(op, key, arg, s, writes, ops, threw) ==
  /\ clock + writes <= MaxClock
  /\ store' = s
  /\ clock' = clock + writes
  /\ last' = Call(op, hook.currentUser, key, arg, <<>>, threw)
  /\ hook' = [hook EXCEPT !.invoked = ops]
  /\ UNCHANGED <<kind, listener, snapshot, vcalls, vlog, mig, app, localData>>

\* list.map(x => x.id === id ? mapped : x), mapped[i] being the
\* replacement of the i-th record.
MapById(list, id, mapped) ==
  [i \in 1..Len(list) |-> IF list[i]["id"] = Str(id) THEN mapped[i] ELSE list[i]]

\* The list of the local records of collection k.
Local(k) == localData[k]

LocalIdsOf(list) == {list[i]["id"].v : i \in 1..Len(list)}

\* What the forms submit for a new record of collection k.
FormData(k) ==
  IF k = "contacts" THEN Rest(LocalRecord(k, 1, FALSE), {"id", "notes", "totalSpent"})
                    ELSE Rest(LocalRecord(k, 1, FALSE), {"id"})

\* handleSaveContact, handleSaveOrder, handleSaveProduct, handleSaveNote.
\* contactId is the contact a note is written for.
HandleSave(contactId) ==
  /\ kind \in {"contacts", "orders", "products", "notes"}
  /\ LET data == IF kind = "notes"
                   THEN Spread(FormData(kind), [contactId |-> Str(contactId)])
                 ELSE IF kind = "contacts"
                   THEN Spread(FormData(kind), [notes |-> Arr(<<>>), totalSpent |-> Num(0)])
                 ELSE FormData(kind)
         u == hook.currentUser
     IN IF (IF kind = "contacts" THEN UsesFirebaseData(app) ELSE app.useFirebase)
          THEN LET key == AutoId(nextId + 1)
                   added == addDoc(store, kind, key, AddFields(kind, data, u), clock + 1)
                   touch == kind = "notes" /\ Exists(store, "contacts", contactId)
               IN /\ nextId < MaxDocs
                  /\ nextId' = nextId + 1
                  /\ FacadeStep("add", key, data,
                                IF touch
                                  THEN updateDoc(added, "contacts", contactId,
                                                 UpdateFields("contacts",
                                                              [lastContact |-> Today]),
                                                 clock + 2)
                                  ELSE added,
                                IF touch THEN 2 ELSE 1,
                                IF kind = "notes" THEN {"addDoc", "updateDoc"}
                                                  ELSE {"addDoc"},
                                FALSE)
          ELSE \E id \in FabricatedIds :
                 LET new == Spread(data, [id |-> Str(id)])
                     noted(c) == Spread(c, [lastContact |-> Today,
                                            notes |-> Arr(Append(c["notes"].v, Obj(new)))])
                 IN /\ Len(localData[kind]) < MaxLocalLen
                    /\ UNCHANGED nextId
                    /\ LocalStep("add", new,
                                 IF kind = "notes"
                                   THEN [localData EXCEPT
                                           !["notes"] = Append(@, new),
                                           !["contacts"] =
                                             MapById(@, contactId,
                                                     [i \in 1..Len(Local("contacts")) |->
                                                        noted(Local("contacts")[i])])]
                                   ELSE [localData EXCEPT ![kind] = Append(@, new)])

\* handleUpdateContact, handleUpdateProduct: the record `id` as the edit
\* form returns it.
HandleUpdate(id, patch) ==
  /\ kind \in {"contacts", "products"}
  /\ UNCHANGED nextId
  /\ IF app.useFirebase
       THEN /\ Exists(store, kind, id)
            /\ LET updated == Spread(Entity(DocAt(store, kind, id)), patch) IN
                 FacadeStep("update", id, updated,
                            updateDoc(store, kind, id, UpdateFields(kind, updated), clock + 1),
                            1, {"updateDoc"}, FALSE)
       ELSE /\ id \in LocalIdsOf(localData[kind])
            /\ LET shown == localData[kind][CHOOSE i \in 1..Len(localData[kind]) :
                                              localData[kind][i]["id"] = Str(id)]
                   updated == Spread(shown, patch)
                   replaced(c) == updated
               IN LocalStep("update", updated,
                            [localData EXCEPT ![kind] =
                               MapById(@, id, [i \in 1..Len(Local(kind)) |->
                                                 replaced(Local(kind)[i])])])

\* !contact.starred
NotStarred(c) == ~("starred" \in DOMAIN c /\ c["starred"] = Bool(TRUE))

\* handleToggleStar(contactId)
HandleToggleStar(id) ==
  /\ kind = "contacts"
  /\ UNCHANGED nextId
  /\ IF app.useFirebase
       THEN /\ UsesFirebaseData(app)
            /\ Exists(store, kind, id)
            /\ LET patch == [starred |-> Bool(NotStarred(Entity(DocAt(store, kind, id))))] IN
                 FacadeStep("update", id, patch,
                            updateDoc(store, kind, id, UpdateFields(kind, patch), clock + 1),
                            1, {"updateDoc"}, FALSE)
       ELSE /\ id \in LocalIdsOf(localData[kind])
            /\ LET starred(c) == Spread(c, [starred |-> Bool(NotStarred(c))]) IN
                 LocalStep("update", [starred |-> Bool(TRUE)],
                           [localData EXCEPT ![kind] =
                              MapById(@, id, [i \in 1..Len(Local(kind)) |->
                                                starred(Local(kind)[i])])])

\* handleReminderComplete(reminderId)
HandleReminderComplete(id) ==
  /\ kind = "reminders"
  /\ UNCHANGED nextId
  /\ LET patch == [completed |-> Bool(TRUE)]
         completed(r) == Spread(r, patch)
     IN IF app.useFirebase
          THEN FacadeStep("update", id, patch,
                          IF Exists(store, kind, id)
                            THEN updateDoc(store, kind, id, UpdateFields(kind, patch),
                                           clock + 1)
                            ELSE store,
                          IF Exists(store, kind, id) THEN 1 ELSE 0,
                          {"updateDoc"}, ~Exists(store, kind, id))
          ELSE /\ id \in LocalIdsOf(localData[kind])
               /\ LocalStep("update", patch,
                            [localData EXCEPT ![kind] =
                               MapById(@, id, [i \in 1..Len(Local(kind)) |->
                                                 completed(Local(kind)[i])])])

\* localProducts.filter(p => p.id !== productId)
FilterOut(list, id) == SelectSeq(list, LAMBDA p : p["id"] # Str(id))

\* handleDeleteProduct(productId), confirmed
HandleDeleteProduct(id) ==
  /\ kind = "products"
  /\ UNCHANGED nextId
  /\ IF app.useFirebase
       THEN /\ Exists(store, kind, id)
            /\ FacadeStep("delete", id, EmptyFields, deleteDoc(store, kind, id), 0,
                          {"deleteDoc"}, FALSE)
       ELSE /\ id \in LocalIdsOf(localData[kind])
            /\ LocalStep("delete", EmptyFields,
                         [localData EXCEPT ![kind] = FilterOut(@, id)])

\* handleVendorInfoSave(info): the hook returns no saveVendorInfo, so the
\* Firebase branch calls undefined.
HandleVendorInfoSave(info) ==
  /\ kind = "vendorInfo"
  /\ UNCHANGED nextId
  /\ IF app.useFirebase
       THEN /\ store' = store
            /\ clock' = clock
            /\ last' = Call("saveVendorInfo", hook.currentUser, "", info, <<TypeError>>, TRUE)
            /\ hook' = [hook EXCEPT !.invoked = {}]
            /\ UNCHANGED <<kind, listener, snapshot, vcalls, vlog, mig, app, localData>>
       ELSE LocalStep("saveVendorInfo", info, [localData EXCEPT !["vendorInfo"] = <<info>>])

\* handleMigrationComplete, which the migration modal calls when it is done
HandleMigrationComplete ==
  /\ ~EffectDue(hook)
  /\ ~AppEffectDue
  /\ app.showMigrationModal
  /\ app' = [app EXCEPT !.useFirebase = TRUE, !.migrationCompleted = TRUE]
  /\ UNCHANGED <<store, nextId, clock, kind, last, listener, snapshot, vcalls, vlog,
                 localData, mig, hook>>

\* The modal's onClose: setShowMigrationModal(false)
CloseMigrationModal ==
  /\ ~EffectDue(hook)
  /\ ~AppEffectDue
  /\ app.showMigrationModal
  /\ app' = [app EXCEPT !.showMigrationModal = FALSE]
  /\ UNCHANGED <<store, nextId, clock, kind, last, listener, snapshot, vcalls, vlog,
                 localData, mig, hook>>

\* The ids a handler can be given: those of the records on the screen.
ShownIds == Keys \cup {LocalId(n) : n \in 1..MaxLocal} \cup FabricatedIds

InitApp ==
  /\ store = {}
  /\ nextId = 0
  /\ clock = 0
  /\ kind \in HookKinds
  /\ last = Call("none", NoOwner, "", EmptyFields, <<>>, FALSE)
  /\ listener = [attached |-> FALSE, owner |-> NoOwner, pending |-> FALSE]
  /\ snapshot = <<>>
  /\ vcalls = <<>>
  /\ vlog = [o \in Owners |-> <<>>]
  /\ localData = AppLocalData
  /\ mig = NoMigration
  /\ \E u \in Owners : hook = HookInit(u)
  /\ \E shown \in BOOLEAN : app = [AppInit EXCEPT !.hasShownMigration = shown]

NextApp ==
  \/ Commit
  \/ \E r \in 1..Len(hook.runs) : ~AppEffectDue /\ SettleOk(r)
  \/ \E r \in 1..Len(hook.runs), code \in ErrorCodes : ~AppEffectDue /\ SettleFail(r, code)
  \/ \E r \in 1..Len(hook.runs) : ~AppEffectDue /\ ListenerDeliver(r)
  \/ \E r \in 1..Len(hook.runs), code \in ErrorCodes : ~AppEffectDue /\ ListenerError(r, code)
  \/ \E id \in ShownIds : MainUI /\ HandleSave(id)
  \/ \E id \in ShownIds :
       MainUI /\ kind \in Kinds /\ \E patch \in FacadePatches(kind) : HandleUpdate(id, patch)
  \/ \E id \in ShownIds : MainUI /\ HandleToggleStar(id)
  \/ \E id \in ShownIds : MainUI /\ HandleReminderComplete(id)
  \/ \E id \in ShownIds : MainUI /\ HandleDeleteProduct(id)
  \/ \E info \in VendorPayloads : MainUI /\ HandleVendorInfoSave(info)
  \/ HandleMigrationComplete
  \/ CloseMigrationModal

SpecApp == InitApp /\ [][NextApp]_vars

\* The component, and a caller that invokes the useLocalMode the hook
\* returns (MainAppContent itself does not take it from the hook).
NextAppCaller ==
  \/ NextApp
  \/ ~AppEffectDue /\ UseLocalMode

SpecAppCaller == InitApp /\ [][NextAppCaller]_vars

\* The handlers as the first render creates them, before any effect has
\* run: useFirebase is false, so each takes its local branch.
NextLocal ==
  \/ \E id \in ShownIds : HandleSave(id)
  \/ \E id \in ShownIds :
       kind \in Kinds /\ \E patch \in FacadePatches(kind) : HandleUpdate(id, patch)
  \/ \E id \in ShownIds : HandleToggleStar(id)
  \/ \E id \in ShownIds : HandleReminderComplete(id)
  \/ \E id \in ShownIds : HandleDeleteProduct(id)
  \/ \E info \in VendorPayloads : HandleVendorInfoSave(info)

SpecLocal == InitApp /\ [][NextLocal]_vars

(***************************************************************************)
(* Properties of the presentation layer.                                   *)
(***************************************************************************)
\* This step is a local add: a record is appended to the local list of k.
LocalAdd(k) == Len(localData'[k]) = Len(localData[k]) + 1

DegradedLocal == ~hook.firebaseAvailable /\ ~LoadingScreen(hook)

\* This step is a handler of the component acting on the user's input.
HandlerStep == last' # last \/ localData' # localData \/ store' # store

\* C18: in every state in which the hook reports firebaseAvailable = false,
\* the contacts, orders, products, notes, reminders and vendor profile the
\* views are given are the local dataset, and every UI handler mutates the
\* local dataset without invoking a store operation.
C18_DegradedLocalIsLocalOnly ==
  /\ [](DegradedLocal =>
          \A k \in HookKinds : Shown(app, hook, localData, k).source = "local")
  /\ [][(DegradedLocal /\ HandlerStep) =>
          /\ store' = store
          /\ hook'.invoked = {}
          /\ last'.caller = "local"]_vars

\* A fetch of an initializeData run is rejected with permission-denied.
PermissionFailure ==
  /\ \E r \in 1..Len(hook.runs) : RunFails(r)
  /\ hook'.error = ErrorMessage("permission-denied")

\* The hook after useLocalMode(): unavailable by opt-out, nothing to report.
OptedOut(h) ==
  ~h.firebaseAvailable /\ h.error = "null" /\ ~h.permissionError /\ ~h.indexError

\* C17: a permission-denied failure of initializeData puts the hook in the
\* error state classified PermissionDenied, in which the caller is offered
\* the recovery action; useLocalMode() then leaves it degraded-local with
\* the error and both flags cleared, and the views show the local dataset.
C17_ErrorThenLocalMode ==
  /\ [][PermissionFailure => (hook'.permissionError /\ ErrorScreen(hook'))]_vars
  /\ [][(ErrorState(hook) /\ hook' # hook /\ ~RunStarts) => OptedOut(hook')]_vars
  /\ []((OptedOut(hook) /\ ~LoadingScreen(hook)) =>
          \A k \in HookKinds : Shown(app, hook, localData, k).source = "local")

(***************************************************************************)
(* Properties of the hook's runs, listeners and sessions.                  *)
(***************************************************************************)
\* What the hook shows of its state: the snapshots and the error state.
Visible(h) ==
  [data |-> h.data, error |-> h.error, permissionError |-> h.permissionError,
   indexError |-> h.indexError, firebaseAvailable |-> h.firebaseAvailable]

\* Run r's fetches settle in this step, one way or the other.
RunSettles(r) == hook.runs[r].phase = "fetching" /\ hook'.runs[r].phase # "fetching"

\* C21: once the effect's cleanup has run for an initializeData call, the
\* call holds no subscription, and neither its pending fetches nor its
\* listeners modify the hook's snapshots or error state any more, also when
\* the cleanup ran while the fetches were in flight.
C21_CancellationIsEffective ==
  /\ [](\A r \in 1..Len(hook.runs) : hook.runs[r].cancelled => hook.runs[r].subs = {})
  /\ [][\A r \in 1..Len(hook.runs) :
          (hook.runs[r].cancelled /\ RunSettles(r)) => Visible(hook') = Visible(hook)]_vars

\* The hook of one session over a store that its own facade writes to:
\* fetches are answered at one time and installed at a later one, while the
\* listeners of earlier runs go on delivering.
InitVersions ==
  /\ InitHook
  /\ hook.currentUser # NoOwner

NextVersions ==
  \/ RunEffect
  \/ \E r \in 1..Len(hook.runs) : FetchRead(r)
  \/ \E r \in 1..Len(hook.runs) : SettleOk(r)
  \/ \E r \in 1..Len(hook.runs) : ListenerDeliver(r)
  \/ CallerInitialize
  \/ \E e \in FacadeEntities(kind) : FacadeAdd(e)

SpecVersions == InitVersions /\ [][NextVersions]_vars

\* C22: for each entity kind the hook's successive snapshots reflect a
\* non-decreasing sequence of store versions, whatever the interleaving of
\* listener deliveries with the completion of getAll calls.
C22_MonotonicSnapshots ==
  [][\A k \in Kinds : hook'.data[k].v >= hook.data[k].v]_vars

(***************************************************************************)
(* Properties of repeated migrations.                                      *)
(***************************************************************************)
\* The documents of every collection that carry the owner's userId.
OwnedDocs(o) ==
  {d \in store : "userId" \in DOMAIN d.data /\ d.data["userId"] = Str(o)}

\* The migrations of the owner that returned.
ReturnedFor(o) == {i \in Returned : mig.done[i].owner = o}

\* What a document holds besides the server's stamps.
Unstamped(d) == Rest(d.data, {"createdAt", "updatedAt"})

\* C23: migrations of the same dataset that returned for the same owner do
\* not share a document: every source record is in the store once per
\* migration, under different store-assigned ids, so that two migrations of
\* N records leave 2N documents of that owner.
C23_MigrationNotIdempotent ==
  \A o \in Owners :
    /\ Cardinality(OwnedDocs(o)) =
         Cardinality(ReturnedFor(o))
           * (Len(SourceRecords(localData, 1)) + Len(localData["vendorInfo"]))
    /\ \A i, j \in ReturnedFor(o) :
         i # j =>
           \A p \in 1..Len(mig.done[i].batch) :
             LET a == mig.done[i].batch[p]
                 b == mig.done[j].batch[p]
             IN /\ a.key # b.key
                /\ Exists(store, a.col, a.key)
                /\ Exists(store, b.col, b.key)
                /\ Unstamped(DocAt(store, a.col, a.key))
                     = Unstamped(DocAt(store, b.col, b.key))

\* C23 witness: two migrations of a dataset of six records returned for the
\* same owner, and the store holds twelve documents.
C23_Witness ==
  /\ Len(mig.done) = 2
  /\ Returned = {1, 2}
  /\ mig.done[1].owner = mig.done[2].owner
  /\ Len(mig.done[1].batch) = 6
  /\ Cardinality(OwnedDocs(mig.done[1].owner)) = 12

(***************************************************************************)
(* Properties of the hook's modes.                                         *)
(***************************************************************************)
\* C24: once useLocalMode() has left the hook degraded-local, the hook stays
\* so (firebaseAvailable false, no fetch issued, no listener attached) until
\* the caller invokes initializeData() or the session changes.
C24_LocalModeIsSticky ==
  [][(OptedOut(hook) /\ (hook'.firebaseAvailable \/ RunStarts)) =>
       \/ RunStarts /\ hook'.runs[Len(hook'.runs)].by = "caller"
       \/ SessionChanged]_vars

\* The hook of a fixed session over a store that rejects every getAll, left
\* to itself: no caller action, no session change.
NextRejecting ==
  \/ RunEffect
  \/ \E r \in 1..Len(hook.runs), code \in ErrorCodes : SettleFail(r, code)

\* Effects run after every render and every fetch is answered.
SpecRejecting == InitVersions /\ [][NextRejecting]_vars /\ WF_vars(NextRejecting)

\* Nothing is in flight and nothing is due: no state change will occur.
Stable ==
  /\ ~hook.loading
  /\ ~hook.initializing
  /\ ~EffectDue(hook)
  /\ \A r \in 1..Len(hook.runs) : hook.runs[r].phase # "fetching"

ListenerErrorsBatched(r, k1, code1, k2, code2) ==
  /\ ~EffectDue(hook)
  /\ k1 # k2
  /\ {k1, k2} \subseteq hook.runs[r].subs
  /\ hook' = [handleFirebaseError(handleFirebaseError(hook, code1), code2) EXCEPT
                !.runs[r].subs = @ \ {k1, k2}]
  /\ UNCHANGED <<store, nextId, clock, kind, last, listener, snapshot, vcalls, vlog,
                 localData, mig, app>>

\* Another of the five listeners than that of k.
Neighbour(k) == IF k = "contacts" THEN "notes" ELSE "contacts"

\* The hook's life, with errors of several listeners arriving together.
NextHookBatched ==
  \/ NextHook
  \/ \E r \in 1..Len(hook.runs), code1, code2 \in ErrorCodes :
       ListenerErrorsBatched(r, kind, code1, Neighbour(kind), code2)

SpecHookBatched == InitHook /\ [][NextHookBatched]_vars

\* C26: at most one of permissionError and indexError is true, and when one
\* is true the error message is non-null, after any sequence of fetch
\* failures and listener errors.
C26_TypedErrorSingleValued ==
  /\ ~(hook.permissionError /\ hook.indexError)
  /\ (hook.permissionError \/ hook.indexError) => hook.error # "null"

\* The runs that hold a live listener on collection k.
Subscribers(k) == {r \in 1..Len(hook.runs) : k \in hook.runs[r].subs}

\* The session has ended and the effect's cleanup has run (ProtectedRoute
\* unmounts the component that uses the hook).
Ended == hook.mounted /\ hook.currentUser = NoOwner /\ ~EffectDue(hook)

\* C27: the hook holds at most one live subscription per entity kind, and
\* none once the session has ended and the cleanup has run, whatever runs
\* of initializeData were started.
C27_NoSubscriptionLeak ==
  \A k \in Kinds :
    /\ Cardinality(Subscribers(k)) <= 1
    /\ Ended => Subscribers(k) = {}

\* The initializeData the effect started for the present session completed.
SessionInitialized(h) ==
  /\ h.currentUser # NoOwner
  /\ h.effectRun > 0
  /\ h.runs[h.effectRun].owner = h.currentUser
  /\ h.runs[h.effectRun].phase = "ready"

\* The owner whose documents the snapshot of k holds.
OwnerOf(h, k) == IF h.data[k].run = 0 THEN NoOwner ELSE h.runs[h.data[k].run].owner

\* C28: once the initialization of the present session has completed, every
\* snapshot installed holds the present owner's documents: a late
\* completion of an earlier owner's fetches never overwrites them.
C28_NoStaleOwnerData ==
  [][(hook'.currentUser = hook.currentUser /\ SessionInitialized(hook')) =>
       \A k \in HookKinds :
         (hook'.data[k] # hook.data[k] \/ ~SessionInitialized(hook)) =>
           OwnerOf(hook', k) = hook'.currentUser]_vars

\* The document a client of the owner left in the remote store earlier.
EarlierDoc(k, u) ==
  [col |-> k, key |-> AutoId(1),
   data |-> Resolve(AddFields(k, CHOOSE e \in FacadeEntities(k) : TRUE, u), 0)]

\* A client that mounts the component over a remote store that is empty or
\* holds a document of the owner, with or without the localStorage flag.
InitAppRemote ==
  /\ kind \in HookKinds
  /\ \E u \in Owners :
       /\ hook = HookInit(u)
       /\ store \in {{}} \cup (IF kind \in Kinds THEN {{EarlierDoc(kind, u)}} ELSE {})
  /\ nextId = Cardinality(store)
  /\ clock = 0
  /\ last = Call("none", NoOwner, "", EmptyFields, <<>>, FALSE)
  /\ listener = [attached |-> FALSE, owner |-> NoOwner, pending |-> FALSE]
  /\ snapshot = <<>>
  /\ vcalls = <<>>
  /\ vlog = [o \in Owners |-> <<>>]
  /\ localData = AppLocalData
  /\ mig = NoMigration
  /\ \E shown \in BOOLEAN : app = [AppInit EXCEPT !.hasShownMigration = shown]

SpecAppRemote == InitAppRemote /\ [][NextApp]_vars

\* <MigrationModal isOpen={showMigrationModal}> is on the screen.
ModalShown == app.showMigrationModal /\ ~LoadingScreen(hook) /\ ~ErrorScreen(hook)

\* An initializeData of the present session has completed.
RemoteLoaded(h) ==
  \E r \in 1..Len(h.runs) : h.runs[r].owner = h.currentUser /\ h.runs[r].phase = "ready"

\* The owner's remote store holds no contacts, products or orders.
RemoteEmpty ==
  \A k \in {"contacts", "products", "orders"} : Query(store, k, hook.currentUser) = {}

\* C29: the migration modal is open only when the owner's remote store has
\* been loaded and holds no contacts, products or orders.
C29_NoMigrationOverRemoteData == ModalShown => (RemoteLoaded(hook) /\ RemoteEmpty)

\* The vendorInfoService.set call i resolves in this step.
SetCompletes(i) == vcalls[i].phase = "write" /\ vcalls'[i].phase = "done"

\* The vendorInfoService.set call i rejects in this step.
SetFails(i) == vcalls[i].phase = "write" /\ vcalls'[i].phase = "threw"

\* The hook's vendorInfo is the value a setVendorInfo call passed.
HoldsSetValue(h) == h.data["vendorInfo"].from = "setVendorInfo"

\* C30: the hook's vendorInfo becomes the value passed to setVendorInfo in
\* the step in which vendorInfoService.set completes, the store then holding
\* that value, and in no other step; when the set fails the call throws and
\* the hook's vendorInfo, snapshots and error state stay as they were.
C30_VendorStateFollowsStore ==
  [][/\ \A i \in 1..Len(vcalls) :
          SetCompletes(i) =>
            /\ HoldsSetValue(hook')
            /\ hook'.data["vendorInfo"].value = vcalls[i].payload
            /\ \E d \in Query(store', "vendorInfo", vcalls[i].owner) :
                 \A f \in DOMAIN vcalls[i].payload : d.data[f] = vcalls[i].payload[f]
     /\ (HoldsSetValue(hook') /\ hook'.data["vendorInfo"] # hook.data["vendorInfo"]) =>
          \E i \in 1..Len(vcalls) : SetCompletes(i)
     /\ \A i \in 1..Len(vcalls) :
          SetFails(i) => Visible(hook') = Visible(hook)]_vars

\* A set call has failed after another had completed, the hook holding the
\* value of the completed one.
C30_Witness ==
  /\ HoldsSetValue(hook)
  /\ \E i, j \in 1..Len(vcalls) :
       /\ i < j
       /\ vcalls[i].phase = "done"
       /\ vcalls[j].phase = "threw"
       /\ hook.data["vendorInfo"].value = vcalls[i].payload

====
